---- MODULE Spec2Model ----
(***************************************************************************)
(* Model of the anomaly detectors of TFMV/supercharged.                    *)
(*                                                                         *)
(* A column is an Arrow Float64 array: a sequence of slots, each with a    *)
(* validity bit and a value.  float64 arithmetic is modelled by exact      *)
(* rational arithmetic (normalised fractions); a square root is carried    *)
(* by its radicand, so that comparisons of z-scores are exact.             *)
(***************************************************************************)
EXTENDS Integers, Sequences, FiniteSets, TLC

(* ------------------------------ bounds --------------------------------- *)
MaxLen == 3      \* longest enumerated column
MaxVal == 2      \* enumerated column values are 0..MaxVal
MaxNegT == 2     \* thresholds are k/2 for k in -MaxNegT..MaxT
MaxT == 4
MaxRows == 3
MaxChunk == 2

(* ------------------------ float64 as rationals ------------------------- *)
Abs(x) == IF x < 0 THEN -x ELSE x

RECURSIVE GCD(_, _)
GCD(a, b) == IF b = 0 THEN a ELSE GCD(b, a % b)

Rat(n, d) ==
    LET g == GCD(Abs(n), Abs(d))
        s == IF d < 0 THEN -1 ELSE 1
    IN  [num |-> s * (n \div g), den |-> s * (d \div g)]

FromInt(v) == [num |-> v, den |-> 1]
FZero == FromInt(0)
FAdd(a, b) == Rat(a.num * b.den + b.num * a.den, a.den * b.den)
FSub(a, b) == Rat(a.num * b.den - b.num * a.den, a.den * b.den)
FMul(a, b) == Rat(a.num * b.num, a.den * b.den)
FDiv(a, b) == Rat(a.num * b.den, a.den * b.num)
FLt(a, b) == a.num * b.den < b.num * a.den
FLe(a, b) == a.num * b.den <= b.num * a.den
FIsZero(a) == a.num = 0

\* math.Sqrt(x) for x >= 0: the non-negative root, carried by its radicand
Sqrt(x) == [sq |-> x]
RootIsZero(r) == FIsZero(r.sq)
\* |a| / r for a root r > 0: non-negative, carried by its square
AbsOverRoot(a, r) == [sq |-> FDiv(FMul(a, a), r.sq)]
\* z > t and z >= t for a non-negative z carried by its square
RootGt(z, t) == IF t.num < 0 THEN TRUE ELSE FLt(FMul(t, t), z.sq)
RootGe(z, t) == IF t.num < 0 THEN TRUE ELSE FLe(FMul(t, t), z.sq)

(* ----------------------------- Arrow arrays ---------------------------- *)
Slot(v) == [valid |-> TRUE, v |-> v]
NullSlot == [valid |-> FALSE, v |-> 0]
NullF == [valid |-> FALSE, v |-> FZero]
IsNull(arr, i) == ~arr[i].valid
Value(arr, i) == arr[i].v

NilArray == [nil |-> TRUE, data |-> <<>>]
Array(s) == [nil |-> FALSE, data |-> s]

(* ------------------- super.go: DetectAnomalies ------------------------- *)
ErrEmpty == "empty column provided"
ErrNoValid == "no valid values found in column"
NoErr == ""

\* sum and validCount after the first i rows of the loop
RECURSIVE SumValid(_, _)
SumValid(c, i) ==
    IF i = 0 THEN FZero
    ELSE IF ~IsNull(c, i) THEN FAdd(SumValid(c, i - 1), FromInt(Value(c, i)))
         ELSE SumValid(c, i - 1)

\* mutant: the null check of the counting loop is missing
CountRows(c, i) == i

RECURSIVE CountValid(_, _)
CountValid(c, i) ==
    IF i = 0 THEN 0
    ELSE IF ~IsNull(c, i) THEN CountValid(c, i - 1) + 1
         ELSE CountValid(c, i - 1)

Mean(sum, validCount) == FDiv(sum, FromInt(validCount))

\* mutant: the value buffer of a null row is treated as data
DiffsKeepNulls(c, mean) ==
    [i \in 1..Len(c) |-> Slot(FSub(FromInt(Value(c, i)), mean))]
Diffs(c, mean) ==
    [i \in 1..Len(c) |->
        IF IsNull(c, i) THEN NullF
        ELSE Slot(FSub(FromInt(Value(c, i)), mean))]

RECURSIVE SumSquares(_, _)
SumSquares(diffs, i) ==
    IF i = 0 THEN FZero
    ELSE IF ~IsNull(diffs, i)
         THEN FAdd(SumSquares(diffs, i - 1),
                   FMul(Value(diffs, i), Value(diffs, i)))
         ELSE SumSquares(diffs, i - 1)

\* mutant: sample variance, divisor N - 1
VarianceSample(sumSquares, validCount) ==
    IF validCount = 1 THEN FZero
    ELSE FDiv(sumSquares, FromInt(validCount - 1))
Variance(sumSquares, validCount) == FDiv(sumSquares, FromInt(validCount))

Zscores(diffs, stddev) ==
    [i \in 1..Len(diffs) |->
        IF IsNull(diffs, i) THEN [valid |-> FALSE, v |-> Sqrt(FZero)]
        ELSE Slot(AbsOverRoot(Value(diffs, i), stddev))]

\* mutant: the boundary is included
ExceedsOrEqual(zscore, threshold) == RootGe(zscore, threshold)
\* mutant: the comparison is reversed
ExceedsReversed(zscore, threshold) == ~RootGe(zscore, threshold)
Exceeds(zscore, threshold) == RootGt(zscore, threshold)

\* mutant: a null z-score appends a null mask entry
MaskNullForNull(zscores, threshold) ==
    [i \in 1..Len(zscores) |->
        IF IsNull(zscores, i) THEN [valid |-> FALSE, v |-> FALSE]
        ELSE Slot(RootGt(Value(zscores, i), threshold))]

Mask(zscores, threshold) ==
    [i \in 1..Len(zscores) |->
        IF IsNull(zscores, i) THEN Slot(FALSE)
        ELSE Slot(Exceeds(Value(zscores, i), threshold))]

\* mutant: the stddev = 0 branch flags the non-null rows
ZeroStddevMaskFlagAll(c) == [i \in 1..Len(c) |-> Slot(~IsNull(c, i))]
ZeroStddevMask(c) == [i \in 1..Len(c) |-> Slot(FALSE)]

RECURSIVE Anomalies(_, _, _)
Anomalies(c, mask, i) ==
    IF i = 0 THEN <<>>
    ELSE IF ~IsNull(mask, i) /\ Value(mask, i) /\ ~IsNull(c, i)
         THEN Append(Anomalies(c, mask, i - 1), Value(c, i))
         ELSE Anomalies(c, mask, i - 1)

Failure(e) ==
    [err |-> e, mask |-> NilArray, anomalies |-> NilArray,
     validCount |-> 0, mean |-> FZero, variance |-> FZero]

DetectAnomalies(c, t) ==
    IF Len(c) = 0 THEN Failure(ErrEmpty)
    ELSE
    LET sum == SumValid(c, Len(c))
        validCount == CountValid(c, Len(c))
    IN  IF validCount = 0 THEN Failure(ErrNoValid)
        ELSE
        LET mean == Mean(sum, validCount)
            diffs == Diffs(c, mean)
            sumSquares == SumSquares(diffs, Len(diffs))
            variance == Variance(sumSquares, validCount)
            stddev == Sqrt(variance)
        IN  IF RootIsZero(stddev)
            THEN [err |-> NoErr, mask |-> Array(ZeroStddevMask(c)),
                  anomalies |-> Array(<<>>),
                  validCount |-> validCount, mean |-> mean,
                  variance |-> variance]
            ELSE
            LET zscores == Zscores(diffs, stddev)
                mask == Mask(zscores, t)
            IN  [err |-> NoErr, mask |-> Array(mask),
                 anomalies |-> Array(Anomalies(c, mask, Len(c))),
                 validCount |-> validCount, mean |-> mean,
                 variance |-> variance]

(* ------------- package supercharged: compute-based detector ------------ *)
\* computeMeanAndVariance: first loop (sum, count), then the squared
\* differences from the mean
RECURSIVE cmvSum(_, _)
cmvSum(c, i) ==
    IF i = 0 THEN FZero
    ELSE IF IsNull(c, i) THEN cmvSum(c, i - 1)
         ELSE FAdd(cmvSum(c, i - 1), FromInt(Value(c, i)))

RECURSIVE cmvCount(_, _)
cmvCount(c, i) ==
    IF i = 0 THEN 0
    ELSE IF IsNull(c, i) THEN cmvCount(c, i - 1)
         ELSE cmvCount(c, i - 1) + 1

RECURSIVE cmvSquares(_, _, _)
cmvSquares(c, mean, i) ==
    IF i = 0 THEN FZero
    ELSE IF IsNull(c, i) THEN cmvSquares(c, mean, i - 1)
         ELSE LET diff == FSub(FromInt(Value(c, i)), mean)
              IN  FAdd(cmvSquares(c, mean, i - 1), FMul(diff, diff))

computeMeanAndVariance(c) ==
    LET sum == cmvSum(c, Len(c))
        count == cmvCount(c, Len(c))
    IN  IF count = 0 THEN [mean |-> FZero, variance |-> FZero]
        ELSE LET mean == FDiv(sum, FromInt(count))
             IN  [mean |-> mean,
                  variance |-> FDiv(cmvSquares(c, mean, Len(c)),
                                    FromInt(count))]

\* a float64 score: a number (sign and square), NaN, or the unspecified
\* content of a null slot
Score(neg, sq) == [kind |-> "num", neg |-> neg, sq |-> sq]
NaN == [kind |-> "nan", neg |-> FALSE, sq |-> FZero]
Unspecified == [kind |-> "unspecified", neg |-> FALSE, sq |-> FZero]
NullScore == [valid |-> FALSE, v |-> Unspecified]
NullBit == [valid |-> FALSE, v |-> FALSE]

ErrDivide == "divide computation"

\* compute "subtract": col - mean, nulls stay null
Subtract(c, mean) ==
    [i \in 1..Len(c) |->
        IF IsNull(c, i) THEN NullF
        ELSE Slot(FSub(FromInt(Value(c, i)), mean))]

\* compute "divide" by a non-zero scalar root: signed quotient
Divide(diff, stdDev) ==
    [i \in 1..Len(diff) |->
        IF IsNull(diff, i) THEN NullScore
        ELSE Slot(Score(Value(diff, i).num < 0,
                        FDiv(FMul(Value(diff, i), Value(diff, i)),
                             stdDev.sq)))]

\* IEEE quotient by a zero scalar: every difference is 0 there, 0/0 = NaN
DivideByZero(diff) ==
    [i \in 1..Len(diff) |-> IF IsNull(diff, i) THEN NullScore ELSE Slot(NaN)]

\* compute "abs"
AbsScores(z) ==
    [i \in 1..Len(z) |->
        IF IsNull(z, i) THEN NullScore
        ELSE IF Value(z, i).kind = "num"
             THEN Slot(Score(FALSE, Value(z, i).sq))
             ELSE z[i]]

\* compute "greater_equal" against the threshold scalar; a comparison
\* with NaN is false
\* mutant: the squared score is compared with the threshold
GreaterEqualSquared(a, t) == a.kind = "num" /\ FLe(t, a.sq)
GreaterEqual(a, t) == a.kind = "num" /\ RootGe([sq |-> a.sq], t)

Compare(absz, t) ==
    [i \in 1..Len(absz) |->
        IF IsNull(absz, i) THEN NullBit
        ELSE Slot(GreaterEqual(Value(absz, i), t))]

ResultFailure(e, mv) ==
    [err |-> e, Mask |-> NilArray, Zscore |-> NilArray,
     mean |-> mv.mean, variance |-> mv.variance]

\* DetectAnomalies of package supercharged.  divErr: whether the compute
\* library reports a float division by zero as an error or follows IEEE.
SuperchargedDetectAnomalies(c, t, divErr) ==
    LET mv == computeMeanAndVariance(c)
        stdDev == Sqrt(mv.variance)
        diff == Subtract(c, mv.mean)
        divides == \E i \in 1..Len(c) : ~IsNull(c, i)
    IN  IF RootIsZero(stdDev) /\ divides /\ divErr
        THEN ResultFailure(ErrDivide, mv)
        ELSE
        LET zscore == IF RootIsZero(stdDev) THEN DivideByZero(diff)
                      ELSE Divide(diff, stdDev)
            absz == AbsScores(zscore)
        IN  [err |-> NoErr, Mask |-> Array(Compare(absz, t)),
             Zscore |-> Array(zscore),
             mean |-> mv.mean, variance |-> mv.variance]

\* cmd/analyze: the anomalies list assembled from a Result.  Mask.Value of
\* a null slot reads an unspecified bit: nullBits[i] is what it reads.
RECURSIVE AssembleAnomalies(_, _, _)
AssembleAnomalies(r, nullBits, i) ==
    IF i = 0 THEN <<>>
    ELSE LET bit == IF IsNull(r.Mask.data, i) THEN nullBits[i]
                    ELSE Value(r.Mask.data, i)
         IN  IF bit
             THEN Append(AssembleAnomalies(r, nullBits, i - 1),
                         Value(r.Zscore.data, i))
             ELSE AssembleAnomalies(r, nullBits, i - 1)

(* ------------------------ super.go: CSVReader -------------------------- *)
\* csv.WithChunk(1024)
DefaultChunk == 1024
\* the null values of csv.WithNullReader(true, "NULL", "null", "", "N/A", "n/a")
DefaultNulls == {"NULL", "null", "", "N/A", "n/a"}
\* csv.DefaultNullValues, which WithNullReader takes when given no value
LibraryNulls == {"", "NULL", "null"}

\* csv.Option values: each sets one field of the reader it is applied to
WithAllocator == [opt |-> "WithAllocator", nulls |-> {}, n |-> 0]
WithHeader == [opt |-> "WithHeader", nulls |-> {}, n |-> 0]
WithNullReader(nullValues) ==
    [opt |-> "WithNullReader", nulls |-> nullValues, n |-> 0]
WithChunk(n) == [opt |-> "WithChunk", nulls |-> {}, n |-> n]
WithComment == [opt |-> "WithComment", nulls |-> {}, n |-> 0]
WithComma == [opt |-> "WithComma", nulls |-> {}, n |-> 0]

\* csv.NewReader before any option is applied
LibraryReader ==
    [header |-> FALSE, nulls |-> {}, chunk |-> 1,
     pos |-> 0, started |-> FALSE, done |-> FALSE, err |-> NoErr]

ApplyOption(r, o) ==
    CASE o.opt = "WithHeader" -> [r EXCEPT !.header = TRUE]
      [] o.opt = "WithNullReader" ->
            [r EXCEPT !.nulls = IF o.nulls = {} THEN LibraryNulls ELSE o.nulls]
      [] o.opt = "WithChunk" -> [r EXCEPT !.chunk = o.n]
      [] OTHER -> r

RECURSIVE ApplyOptions(_, _)
ApplyOptions(r, opts) ==
    IF opts = <<>> THEN r
    ELSE ApplyOptions(ApplyOption(r, Head(opts)), Tail(opts))

DefaultOpts ==
    <<WithAllocator, WithHeader, WithNullReader(DefaultNulls),
      WithChunk(DefaultChunk)>>

\* allOpts := append(defaultOpts, opts...); csv.NewReader(r, schema, allOpts...)
NewCSVReader(opts) == ApplyOptions(LibraryReader, DefaultOpts \o opts)

ErrHeader == "arrow/csv: could not read header from file"
ErrParse == "strconv.ParseFloat: invalid syntax"
ErrReadAll == "error reading CSV"
ErrNoRecords == "no records found in CSV"
ErrNotInSchema == "column not found in schema"

\* strconv.ParseFloat on the tokens of the input files
ParseOk(tok) == tok \in {"0", "1", "2", "3"}
ParseFloat(tok) ==
    CASE tok = "0" -> 0 [] tok = "1" -> 1 [] tok = "2" -> 2 [] tok = "3" -> 3
      [] OTHER -> 0

\* the reader's field conversion: a null token appends null; the first
\* token that fails to parse sets the reader's error and appends null
ParseField(r, tok) ==
    IF tok \in r.nulls THEN [slot |-> NullSlot, err |-> r.err]
    ELSE IF ~ParseOk(tok) /\ r.err = NoErr
         THEN [slot |-> NullSlot, err |-> ErrParse]
         ELSE [slot |-> Slot(ParseFloat(tok)), err |-> r.err]

\* the header line is consumed by the first Next of a reader WithHeader
ReadHeader(f, r) ==
    IF r.started THEN r
    ELSE IF ~r.header THEN [r EXCEPT !.started = TRUE]
    ELSE IF Len(f) = 0 THEN [r EXCEPT !.started = TRUE, !.err = ErrHeader]
    ELSE [r EXCEPT !.started = TRUE, !.pos = 1]

\* the rows one Next reads into the record builder, row by row: at most
\* chunk rows, stopping at the end of the input, which is no error; the
\* rows after the first one that sets the error are parsed with it set
ReadRows(f, r, chunk) ==
    LET left == Len(f) - r.pos
        n == IF left < chunk THEN left ELSE chunk
        failing == {j \in 1..n : ParseField(r, f[r.pos + j]).err # r.err}
        first == IF failing = {} THEN n + 1
                 ELSE CHOOSE j \in failing : \A i \in failing : j <= i
    IN  [r |-> [r EXCEPT !.pos = @ + n, !.done = left < chunk,
                         !.err = IF first <= n THEN ErrParse ELSE r.err],
         rows |-> [k \in 1..n |->
                     ParseField(IF k <= first THEN r
                                ELSE [r EXCEPT !.err = ErrParse],
                                f[r.pos + k]).slot]]

\* cr.reader.Next() with cr.reader.Record(): [ok, rec, r]
ReaderNext(f, r0) ==
    LET Built(b) ==
            [ok |-> Len(b.rows) > 0, rec |-> b.rows,
             r |-> IF b.r.err # NoErr THEN [b.r EXCEPT !.done = TRUE]
                   ELSE b.r]
        Started(r) ==
            IF r.err # NoErr \/ r.done THEN [ok |-> FALSE, rec |-> <<>>, r |-> r]
            ELSE Built(ReadRows(f, r, IF r.chunk > 1 THEN r.chunk ELSE 1))
    IN  Started(ReadHeader(f, r0))

\* the loop of ReadAll: for cr.reader.Next() { records = append(...) }
RECURSIVE ReadLoop(_, _, _)
ReadLoop(f, r, records) ==
    LET Body(n) ==
            IF n.ok THEN ReadLoop(f, n.r, Append(records, n.rec))
            ELSE [records |-> records, r |-> n.r]
    IN  Body(ReaderNext(f, r))

\* mutant: the reader's error is not looked at after the loop
ReadAllIgnoringErr(f, r) ==
    LET AfterLoop(l) ==
            [nil |-> l.records = <<>>, records |-> l.records, err |-> NoErr,
             r |-> l.r]
    IN  AfterLoop(ReadLoop(f, r, <<>>))
\* mutant: the loop stops after the first record
ReadAllFirstRecord(f, r) ==
    LET Body(n) ==
            [nil |-> ~n.ok, records |-> IF n.ok THEN <<n.rec>> ELSE <<>>,
             err |-> NoErr, r |-> n.r]
    IN  Body(ReaderNext(f, r))
\* CSVReader.ReadAll: [nil, records, err] and the reader afterwards
ReadAll(f, r) ==
    LET AfterLoop(l) ==
            IF l.r.err # NoErr
            THEN [nil |-> TRUE, records |-> <<>>, err |-> ErrReadAll,
                  r |-> l.r]
            ELSE [nil |-> l.records = <<>>, records |-> l.records,
                  err |-> NoErr, r |-> l.r]
    IN  AfterLoop(ReadLoop(f, r, <<>>))

\* the schema of the one-column files: CreateFloatSchema(ColumnName)
ColumnName == "value"

RECURSIVE Concatenate(_)
Concatenate(chunks) ==
    IF chunks = <<>> THEN <<>> ELSE Head(chunks) \o Concatenate(Tail(chunks))

\* what ReadSingleColumn returns for the collected chunks
ExtractChunks(chunks) == Array(chunks[1])

\* CSVReader.ReadSingleColumn: [column, err] and the reader afterwards
ReadSingleColumn(f, r, columnName) ==
    LET AfterReadAll(a) ==
            IF a.err # NoErr
            THEN [column |-> NilArray, err |-> a.err, r |-> a.r]
            ELSE IF Len(a.records) = 0
            THEN [column |-> NilArray, err |-> ErrNoRecords, r |-> a.r]
            ELSE IF columnName # ColumnName
            THEN [column |-> NilArray, err |-> ErrNotInSchema, r |-> a.r]
            ELSE [column |-> ExtractChunks(a.records), err |-> NoErr,
                  r |-> a.r]
    IN  AfterReadAll(ReadAll(f, r))

\* main: targetColumn = records[0].Column(i)
TargetColumn(records) == records[1]

(* ------------------------------ inputs --------------------------------- *)
Slots == {NullSlot} \cup {Slot(v) : v \in 0..MaxVal}

RECURSIVE SeqsUpTo(_)
SeqsUpTo(n) ==
    IF n = 0 THEN {<<>>}
    ELSE LET shorter == SeqsUpTo(n - 1)
         IN  shorter \cup
             {Append(s, x) : s \in {q \in shorter : Len(q) = n - 1}, x \in Slots}

FromValues(vs) == [i \in 1..Len(vs) |-> Slot(vs[i])]

\* columns of the repository's tests
TestColumn == FromValues(<<100, 100, 100, 100, 200, 100, 0, 100>>)
TestColumnWithNulls ==
    <<Slot(100), Slot(100), NullSlot, Slot(100), Slot(200), Slot(0),
      NullSlot, Slot(100)>>

TestColumnSingleOutlier == FromValues(<<1, 2, 3, 100, 2>>)

Columns ==
    SeqsUpTo(MaxLen) \cup
    {TestColumn, TestColumnWithNulls, TestColumnSingleOutlier}

Thresholds == {Rat(k, 2) : k \in (0 - MaxNegT)..MaxT}
\* the threshold 1.99 of the package test, tried on the column of that test
TestThresholds == {Rat(199, 100)}
ThresholdsFor(c) ==
    IF c = TestColumnSingleOutlier THEN Thresholds \cup TestThresholds
    ELSE Thresholds

\* input files of one column: the header line, then one token per data row
Tokens == {"1", "2", "NULL", "N/A", "abc"}
RowsUpTo(n) == UNION {[1..k -> Tokens] : k \in 0..n}
\* a file of one row more than a default batch holds
LongFile ==
    <<ColumnName>> \o
    [i \in 1..(DefaultChunk + 1) |-> IF i > DefaultChunk THEN "2" ELSE "1"]
Files ==
    {<<>>, LongFile} \cup {<<ColumnName>> \o rows : rows \in RowsUpTo(MaxRows)}
\* the options a caller passes to NewCSVReader
CallerOptions ==
    {<<>>, <<WithComment, WithComma>>, <<WithNullReader({})>>,
     <<WithNullReader({"-"})>>} \cup {<<WithChunk(c)>> : c \in 1..MaxChunk}
ColumnNames == {ColumnName, "nonexistent"}

(* ------------------------------- state --------------------------------- *)
\* super.go is a program of its own (package main); package supercharged
\* with cmd/analyze is another.  A process runs one of the two.
Programs == {"main", "supercharged"}

VARIABLES
    program,    \* which of the programs this process is
    col,        \* the column handed to the detector
    threshold,  \* the threshold of the last call
    called,     \* TRUE once DetectAnomalies has returned for col
    ret,        \* what the last call of DetectAnomalies (super.go) returned
    prev,       \* the call before it: [called, col, threshold, ret]
    res,        \* last Result of supercharged.DetectAnomalies, with its
                \* threshold and the statistics it computed
    out,        \* what cmd/analyze assembled: [done, nullBits, Count, Anomalies]
    file,       \* the lines of the CSV input
    rd,         \* the csv.Reader of the CSVReader built by NewCSVReader
    rr,         \* what the last reader operation returned
    prod,       \* the goroutine of Chan: [pc, rec, produced]
    cons,       \* the consumer of Chan's channels:
                \* [pc, name, chunks, received, column, err]
    recs,       \* the record channel: [closed]
    errs,       \* the error channel, of capacity 1: [buf, closed]
    ctx,        \* the context given to Chan: [cancellable, done]
    arr,        \* the target column a pipeline extracted: [kind, data]
    conv,       \* a pipeline from the extracted column to the detector:
                \* [variant, err, floatColumn, detected]
    refs        \* reference counts of the csv.Reader of a CSVReader and of
                \* the arrays of a Result, with the Release calls made

detectVars == <<program, col, threshold, called, ret, prev, res, out>>
readerVars == <<file, rd, rr>>
chanVars == <<prod, cons, recs, errs, ctx>>
pipeVars == <<arr, conv>>
vars == <<program, col, threshold, called, ret, prev, res, out, file, rd, rr,
          prod, cons, recs, errs, ctx, arr, conv, refs>>

NoCall == [called |-> FALSE, col |-> <<>>, threshold |-> FZero,
           ret |-> Failure(NoErr)]
NoResult == [called |-> FALSE, threshold |-> FZero,
             r |-> ResultFailure(NoErr, [mean |-> FZero, variance |-> FZero])]
NoOut == [done |-> FALSE, nullBits |-> <<>>, Count |-> 0, Anomalies |-> <<>>]
NoRead == [op |-> "none", fresh |-> FALSE, name |-> "", nil |-> TRUE,
           records |-> <<>>, column |-> NilArray, err |-> NoErr,
           exit |-> FALSE]
\* no goroutine started, no channel made
NoProd == [pc |-> "none", rec |-> <<>>, produced |-> <<>>]
NoCons == [pc |-> "none", name |-> "", chunks |-> <<>>, received |-> <<>>,
           column |-> NilArray, err |-> NoErr]
NoChan == [closed |-> FALSE]
NoErrs == [buf |-> <<>>, closed |-> FALSE]
Background == [cancellable |-> FALSE, done |-> FALSE]
\* no pipeline run, no reader or Result whose references are followed
NoArr == [kind |-> "none", data |-> <<>>]
NoConv == [variant |-> "none", err |-> NoErr, floatColumn |-> NilArray,
           detected |-> FALSE]
NoRefs == [assert |-> FALSE, panicked |-> FALSE,
           reader |-> 0, mask |-> 0, zscore |-> 0,
           calls |-> [reader |-> 0, result |-> 0],
           first |-> [reader |-> 0, mask |-> 0, zscore |-> 0]]
NoPipeVars ==
    /\ arr = NoArr
    /\ conv = NoConv
    /\ refs = NoRefs

NoChanVars ==
    /\ prod = NoProd
    /\ cons = NoCons
    /\ recs = NoChan
    /\ errs = NoErrs
    /\ ctx = Background

Init ==
    /\ program \in Programs
    /\ col \in Columns
    /\ threshold = FZero
    /\ called = FALSE
    /\ ret = Failure(NoErr)
    /\ prev = NoCall
    /\ res = NoResult
    /\ out = NoOut
    /\ file = <<>>
    /\ rd = NewCSVReader(<<>>)
    /\ rr = NoRead
    /\ NoChanVars
    /\ NoPipeVars

\* mutant: the detector compacts its input in place
InputCompacted(c) == SelectSeq(c, LAMBDA x : x.valid)
\* the input column after DetectAnomalies returned: the detector only
\* reads it (Len, IsNull, Value)
InputAfterDetect(c) == c

Snapshot == [called |-> called, col |-> col, threshold |-> threshold,
             ret |-> ret]

\* a caller runs the detector of super.go on col
CallDetectAnomalies ==
    /\ program = "main"
    /\ \E t \in ThresholdsFor(col) :
        /\ ret' = DetectAnomalies(col, t)
        /\ threshold' = t
        /\ called' = TRUE
        /\ prev' = IF called THEN Snapshot ELSE prev
        /\ col' = InputAfterDetect(col)
        /\ UNCHANGED <<program, res, out>>
        /\ UNCHANGED <<readerVars, chanVars, pipeVars, refs>>

\* a caller runs the compute-based detector of package supercharged on col
CallSuperchargedDetectAnomalies ==
    /\ program = "supercharged"
    /\ ~out.done
    /\ \E t \in ThresholdsFor(col), divErr \in BOOLEAN :
        /\ res' = [called |-> TRUE, threshold |-> t,
                   r |-> SuperchargedDetectAnomalies(col, t, divErr)]
        /\ out' = NoOut
        /\ UNCHANGED <<program, col, threshold, called, ret, prev>>
        /\ UNCHANGED <<readerVars, chanVars, pipeVars, refs>>

\* the unspecified bits Mask.Value may read: one per null row of c
NullBitChoices(c) ==
    {b \in [1..Len(c) -> BOOLEAN] : \A i \in 1..Len(c) : ~IsNull(c, i) => ~b[i]}

\* analyzeCmd.RunE from the extracted Float64 column on: detect, then
\* assemble the output from the Result; the command runs once, and the
\* process ends when it returns
AnalyzeRunE ==
    /\ program = "supercharged"
    /\ ~res.called
    /\ \E t \in ThresholdsFor(col), divErr \in BOOLEAN :
        /\ res' = [called |-> TRUE, threshold |-> t,
                   r |-> SuperchargedDetectAnomalies(col, t, divErr)]
        /\ IF res'.r.err # NoErr THEN out' = NoOut
           ELSE \E nullBits \in NullBitChoices(col) :
                  out' = [done |-> TRUE, nullBits |-> nullBits,
                          Count |-> Len(col),
                          Anomalies |->
                              AssembleAnomalies(res'.r, nullBits, Len(col))]
        /\ UNCHANGED <<program, col, threshold, called, ret, prev>>
        /\ UNCHANGED <<readerVars, chanVars, pipeVars, refs>>

Next ==
    \/ CallDetectAnomalies
    \/ CallSuperchargedDetectAnomalies
    \/ AnalyzeRunE

Spec == Init /\ [][Next]_vars

(* ------------------ the CSVReader of super.go at work ------------------ *)
\* a CSVReader built over a file with the caller's options, nothing read
InitReader ==
    /\ program = "main"
    /\ col = <<>>
    /\ threshold = FZero
    /\ called = FALSE
    /\ ret = Failure(NoErr)
    /\ prev = NoCall
    /\ res = NoResult
    /\ out = NoOut
    /\ file \in Files
    /\ \E opts \in CallerOptions : rd = NewCSVReader(opts)
    /\ file = LongFile => rd.chunk = DefaultChunk
    /\ rr = NoRead
    /\ NoChanVars
    /\ NoPipeVars

CallReadAll ==
    /\ program = "main"
    /\ \E a \in {ReadAll(file, rd)} :
        /\ rd' = a.r
        /\ rr' = [op |-> "ReadAll", fresh |-> ~rd.started, name |-> "",
                  nil |-> a.nil, records |-> a.records, column |-> NilArray,
                  err |-> a.err, exit |-> FALSE]
    /\ UNCHANGED <<detectVars, file, chanVars, pipeVars, refs>>

CallReadSingleColumn ==
    /\ program = "main"
    /\ \E columnName \in ColumnNames :
        \E c \in {ReadSingleColumn(file, rd, columnName)} :
            /\ rd' = c.r
            /\ rr' = [op |-> "ReadSingleColumn", fresh |-> ~rd.started,
                      name |-> columnName, nil |-> TRUE, records |-> <<>>,
                      column |-> c.column, err |-> c.err, exit |-> FALSE]
    /\ UNCHANGED <<detectVars, file, chanVars, pipeVars, refs>>

\* InferSchemaFromCSV in main: fails without a data row; a column of
\* numeric tokens is inferred numeric, other columns numeric or text
ErrInfer == "no data found for schema inference"
ErrNoNumeric == "No numeric columns found for anomaly detection"
InferredKinds(f) ==
    IF \A i \in 2..Len(f) : ParseOk(f[i]) THEN {"numeric"}
    ELSE {"numeric", "text"}

MainExit(err) ==
    [op |-> "main", fresh |-> TRUE, name |-> "", nil |-> TRUE,
     records |-> <<>>, column |-> NilArray, err |-> err, exit |-> TRUE]

\* main of super.go from opening the file to the column it hands to
\* DetectAnomalies (column name left to auto-detection)
MainExtract ==
    /\ program = "main"
    /\ rr.op = "none"
    /\ IF Len(file) < 2
       THEN rr' = MainExit(ErrInfer) /\ col' = col
       ELSE \E kind \in InferredKinds(file),
               a \in {ReadAll(file, NewCSVReader(<<WithComment, WithComma>>))} :
                IF a.err # NoErr
                THEN rr' = MainExit(a.err) /\ col' = col
                ELSE IF Len(a.records) = 0
                THEN rr' = MainExit(ErrNoRecords) /\ col' = col
                ELSE IF kind = "text"
                THEN rr' = MainExit(ErrNoNumeric) /\ col' = col
                ELSE /\ col' = TargetColumn(a.records)
                     /\ rr' = [op |-> "main", fresh |-> TRUE, name |-> "",
                               nil |-> FALSE, records |-> a.records,
                               column |-> NilArray, err |-> NoErr,
                               exit |-> FALSE]
    /\ UNCHANGED <<program, threshold, called, ret, prev, res, out, file, rd>>
    /\ UNCHANGED <<chanVars, pipeVars, refs>>

NextReader ==
    \/ CallReadAll
    \/ CallReadSingleColumn
    \/ MainExtract

SpecReader == InitReader /\ [][NextReader]_vars

(* ------------- package csvreader: Chan and ReadSingleColumn ------------ *)
ErrCsvRead == "csv read error"
ErrColumnNotFound == "column not found"
ErrNoData == "no data for column"

\* Chan was called on a reader over the file; its goroutine has started
\* and the consumer is about to range over the record channel.
\* ReadSingleColumn passes context.Background(); another caller of Chan
\* may pass a context it can cancel.
InitChan ==
    /\ program = "csvreader"
    /\ col = <<>>
    /\ threshold = FZero
    /\ called = FALSE
    /\ ret = Failure(NoErr)
    /\ prev = NoCall
    /\ res = NoResult
    /\ out = NoOut
    /\ file \in Files
    /\ \E opts \in CallerOptions : rd = NewCSVReader(opts)
    /\ file = LongFile => rd.chunk = DefaultChunk
    /\ rr = NoRead
    /\ prod = [pc |-> "next", rec |-> <<>>, produced |-> <<>>]
    /\ \E columnName \in ColumnNames :
         cons = [NoCons EXCEPT !.pc = "range", !.name = columnName]
    /\ recs = NoChan
    /\ errs = NoErrs
    /\ \E c \in BOOLEAN : ctx = [cancellable |-> c, done |-> FALSE]
    /\ NoPipeVars

\* goroutine: for cr.reader.Next() { rec := cr.reader.Record(); rec.Retain()
ProducerNext ==
    /\ prod.pc = "next"
    /\ \E n \in {ReaderNext(file, rd)} :
        /\ rd' = n.r
        /\ prod' = IF n.ok
                   THEN [pc |-> "select", rec |-> n.rec,
                         produced |-> Append(prod.produced, n.rec)]
                   ELSE [prod EXCEPT !.pc = "after", !.rec = <<>>]
    /\ UNCHANGED <<pipeVars, refs>>
    /\ UNCHANGED <<detectVars, file, rr, cons, recs, errs, ctx>>

\* mutant: the newest chunk is put in front
PrependChunk(chunks, c) == <<c>> \o chunks
\* chunks = append(chunks, col)
AppendChunk(chunks, c) == Append(chunks, c)

\* the record's schema carries the header's column name
FieldFound(f, columnName) == f[1] = columnName

\* case recs <- rec, met by the consumer's receive: the consumer runs the
\* body of its range loop on the record
SendRecord ==
    /\ prod.pc = "select"
    /\ cons.pc = "range"
    /\ ~recs.closed
    /\ prod' = [prod EXCEPT !.pc = "next", !.rec = <<>>]
    /\ cons' = IF FieldFound(file, cons.name)
               THEN [cons EXCEPT !.chunks = AppendChunk(@, prod.rec),
                                 !.received = Append(@, prod.rec)]
               ELSE [cons EXCEPT !.pc = "returned",
                                 !.received = Append(@, prod.rec),
                                 !.err = ErrColumnNotFound]
    /\ UNCHANGED <<pipeVars, refs>>
    /\ UNCHANGED <<detectVars, readerVars, recs, errs, ctx>>

\* case <-ctx.Done(): rec.Release(); return, and the deferred close(recs)
SelectDone ==
    /\ prod.pc = "select"
    /\ ctx.done
    /\ prod' = [prod EXCEPT !.pc = "done", !.rec = <<>>]
    /\ recs' = [closed |-> TRUE]
    /\ UNCHANGED <<pipeVars, refs>>
    /\ UNCHANGED <<detectVars, readerVars, cons, errs, ctx>>

\* after the loop: errs <- the reader's error, if any; close(errs)
ErrsAfterLoop(r) ==
    [buf |-> IF r.err # NoErr THEN <<ErrCsvRead>> ELSE <<>>, closed |-> TRUE]

ProducerAfterLoop ==
    /\ prod.pc = "after"
    /\ errs' = ErrsAfterLoop(rd)
    /\ prod' = [prod EXCEPT !.pc = "closing"]
    /\ UNCHANGED <<pipeVars, refs>>
    /\ UNCHANGED <<detectVars, readerVars, cons, recs, ctx>>

\* the goroutine returns: the deferred close(recs) runs
ProducerReturn ==
    /\ prod.pc = "closing"
    /\ recs' = [closed |-> TRUE]
    /\ prod' = [prod EXCEPT !.pc = "done"]
    /\ UNCHANGED <<pipeVars, refs>>
    /\ UNCHANGED <<detectVars, readerVars, cons, errs, ctx>>

\* the range over recs ends when the channel is closed
RangeEnds ==
    /\ cons.pc = "range"
    /\ recs.closed
    /\ cons' = [cons EXCEPT !.pc = "recvErr"]
    /\ UNCHANGED <<pipeVars, refs>>
    /\ UNCHANGED <<detectVars, readerVars, prod, recs, errs, ctx>>

\* err := <-errs (a buffered error, or nil from the closed channel), then
\* the rest of ReadSingleColumn
ReceiveErr ==
    /\ cons.pc = "recvErr"
    /\ errs.buf # <<>> \/ errs.closed
    /\ IF errs.buf # <<>>
       THEN /\ errs' = [errs EXCEPT !.buf = <<>>]
            /\ cons' = [cons EXCEPT !.pc = "returned", !.chunks = <<>>,
                                    !.err = Head(errs.buf)]
       ELSE /\ errs' = errs
            /\ cons' = IF Len(cons.chunks) = 0
                       THEN [cons EXCEPT !.pc = "returned", !.err = ErrNoData]
                       ELSE [cons EXCEPT !.pc = "returned", !.chunks = <<>>,
                                  !.column = Array(Concatenate(cons.chunks))]
    /\ UNCHANGED <<pipeVars, refs>>
    /\ UNCHANGED <<detectVars, readerVars, prod, recs, ctx>>

\* the holder of a cancellable context cancels it
Cancel ==
    /\ ctx.cancellable
    /\ ~ctx.done
    /\ prod.pc # "none"
    /\ ctx' = [ctx EXCEPT !.done = TRUE]
    /\ UNCHANGED <<pipeVars, refs>>
    /\ UNCHANGED <<detectVars, readerVars, prod, cons, recs, errs>>

NextChan ==
    \/ ProducerNext
    \/ SendRecord
    \/ SelectDone
    \/ ProducerAfterLoop
    \/ ProducerReturn
    \/ RangeEnds
    \/ ReceiveErr
    \/ Cancel

SpecChan == InitChan /\ [][NextChan]_vars

\* ---------------------------------------------------------------------
\* The pipelines from the extracted column to the detector: main of
\* super.go, analyzeCmd.RunE of cmd/analyze, and the flag-based main.

Float64Kind == "float64"
StringKind == "utf8"
NarrowKinds == {"float32", "int64", "int32"}
Kinds == {Float64Kind, StringKind} \cup NarrowKinds

TextColumns ==
    LET TextSlots == {[valid |-> TRUE, v |-> "abc"],
                      [valid |-> FALSE, v |-> ""]}
    IN  {<<>>} \cup {<<x>> : x \in TextSlots}
               \cup {<<x, y>> : x \in TextSlots, y \in TextSlots}

\* the data an array of kind k can hold
ColumnsOfKind(k) == IF k = StringKind THEN TextColumns ELSE SeqsUpTo(MaxLen)

ErrNotNumeric == "is not a numeric type"
ErrUnsupportedArray == "unsupported array type"
ErrUnsupportedType == "unsupported type"
ErrInputNil == "input array is nil"
PanicNilDereference == "panic: nil pointer dereference"

\* -threshold of the flag-based main when the flag is not given
DefaultThreshold == FromInt(3)

\* main of super.go: builder.AppendNull() for a null row,
\* builder.Append(float64(col.Value(i))) otherwise; float64() is exact for
\* int32, float32 and the int64 values of the model
ConvertToFloat64(c) ==
    [i \in 1..Len(c) |-> IF IsNull(c, i) THEN NullSlot ELSE Slot(Value(c, i))]

\* main of super.go: switch col := targetColumn.(type)
MainSwitch(a) ==
    IF a.kind = Float64Kind
    THEN [err |-> NoErr, floatColumn |-> Array(a.data)]
    ELSE IF a.kind \in NarrowKinds
    THEN [err |-> NoErr, floatColumn |-> Array(ConvertToFloat64(a.data))]
    ELSE [err |-> ErrNotNumeric, floatColumn |-> NilArray]

\* analyzeCmd.RunE: colArr, ok := arr.(*array.Float64)
AnalyzeSwitch(a) ==
    IF a.kind = Float64Kind
    THEN [err |-> NoErr, floatColumn |-> Array(a.data)]
    ELSE [err |-> ErrUnsupportedArray, floatColumn |-> NilArray]

\* the flag-based main: switch v := arr.(type); the case of the narrower
\* kinds is empty and leaves col nil
FlagSwitch(a) ==
    IF a.kind = Float64Kind
    THEN [err |-> NoErr, floatColumn |-> Array(a.data)]
    ELSE IF a.kind \in NarrowKinds
    THEN [err |-> NoErr, floatColumn |-> NilArray]
    ELSE [err |-> ErrUnsupportedType, floatColumn |-> NilArray]

\* supercharged.DetectAnomalies on a nil *array.Float64: the variant that
\* checks returns an error, the others dereference the nil array
NilColumnOutcomes == {ErrInputNil, PanicNilDereference}

InitPipeline ==
    /\ program \in {"main", "analyze", "flag"}
    /\ col = <<>>
    /\ threshold = FZero
    /\ called = FALSE
    /\ ret = Failure(NoErr)
    /\ prev = NoCall
    /\ res = NoResult
    /\ out = NoOut
    /\ file = <<>>
    /\ rd = NewCSVReader(<<>>)
    /\ rr = NoRead
    /\ NoChanVars
    /\ \E k \in Kinds : \E d \in ColumnsOfKind(k) :
         arr = [kind |-> k, data |-> d]
    /\ conv = NoConv
    /\ refs = NoRefs

\* main of super.go from the target column to the call of DetectAnomalies
MainConvert ==
    /\ program = "main"
    /\ conv.variant = "none"
    /\ \E s \in {MainSwitch(arr)} :
         IF s.err # NoErr
         THEN /\ conv' = [variant |-> "main", err |-> s.err,
                          floatColumn |-> s.floatColumn, detected |-> FALSE]
              /\ UNCHANGED <<col, threshold, called, ret>>
         ELSE /\ conv' = [variant |-> "main", err |-> NoErr,
                          floatColumn |-> s.floatColumn, detected |-> TRUE]
              /\ col' = s.floatColumn.data
              /\ threshold' = DefaultThreshold
              /\ called' = TRUE
              /\ ret' = DetectAnomalies(s.floatColumn.data, DefaultThreshold)
    /\ UNCHANGED <<program, prev, res, out, arr, refs>>
    /\ UNCHANGED <<readerVars, chanVars>>

\* the call anomaly.DetectAnomalies(ctx, col, threshold) of cmd/analyze
\* and of the flag-based main
DetectOn(floatColumn, divErr, nilOutcome) ==
    IF floatColumn.nil
    THEN ResultFailure(nilOutcome, [mean |-> FZero, variance |-> FZero])
    ELSE SuperchargedDetectAnomalies(floatColumn.data, DefaultThreshold,
                                     divErr)

\* analyzeCmd.RunE from the extracted array to the call of DetectAnomalies
AnalyzeConvert ==
    /\ program = "analyze"
    /\ conv.variant = "none"
    /\ \E s \in {AnalyzeSwitch(arr)}, divErr \in BOOLEAN :
         IF s.err # NoErr
         THEN /\ conv' = [variant |-> "analyze", err |-> s.err,
                          floatColumn |-> s.floatColumn, detected |-> FALSE]
              /\ UNCHANGED <<col, res>>
         ELSE /\ conv' = [variant |-> "analyze", err |-> NoErr,
                          floatColumn |-> s.floatColumn, detected |-> TRUE]
              /\ col' = s.floatColumn.data
              /\ res' = [called |-> TRUE, threshold |-> DefaultThreshold,
                         r |-> DetectOn(s.floatColumn, divErr, NoErr)]
    /\ UNCHANGED <<program, threshold, called, ret, prev, out, arr, refs>>
    /\ UNCHANGED <<readerVars, chanVars>>

\* the flag-based main from the extracted array to the call of
\* DetectAnomalies
FlagConvert ==
    /\ program = "flag"
    /\ conv.variant = "none"
    /\ \E s \in {FlagSwitch(arr)}, divErr \in BOOLEAN,
          nilOutcome \in NilColumnOutcomes :
         IF s.err # NoErr
         THEN /\ conv' = [variant |-> "flag", err |-> s.err,
                          floatColumn |-> s.floatColumn, detected |-> FALSE]
              /\ UNCHANGED <<col, res>>
         ELSE /\ conv' = [variant |-> "flag", err |-> NoErr,
                          floatColumn |-> s.floatColumn, detected |-> TRUE]
              /\ col' = s.floatColumn.data
              /\ res' = [called |-> TRUE, threshold |-> DefaultThreshold,
                         r |-> DetectOn(s.floatColumn, divErr, nilOutcome)]
    /\ UNCHANGED <<program, threshold, called, ret, prev, out, arr, refs>>
    /\ UNCHANGED <<readerVars, chanVars>>

NextPipeline ==
    \/ MainConvert
    \/ AnalyzeConvert
    \/ FlagConvert

SpecPipeline == InitPipeline /\ [][NextPipeline]_vars

\* ---------------------------------------------------------------------
\* Release of a CSVReader and of a Result.  The reference counts are
\* those of arrow-go's csv.Reader and arrays: Release decrements, and a
\* build with the assert tag panics on a Release of a count that is not
\* positive.

MaxRefs == 2
MaxReleaseCalls == 2

\* cr.reader.Release(), r.Mask.Release(), r.Zscore.Release()
TooManyReleases(assert, n) == assert /\ n <= 0
Released(n) == n - 1

InitRelease ==
    /\ program = "release"
    /\ col = <<>>
    /\ threshold = FZero
    /\ called = FALSE
    /\ ret = Failure(NoErr)
    /\ prev = NoCall
    /\ res = NoResult
    /\ out = NoOut
    /\ file = <<>>
    /\ rd = NewCSVReader(<<>>)
    /\ rr = NoRead
    /\ NoChanVars
    /\ arr = NoArr
    /\ conv = NoConv
    /\ \E assert \in BOOLEAN, r \in 1..MaxRefs, m \in 1..MaxRefs,
          z \in 1..MaxRefs :
         refs = [NoRefs EXCEPT !.assert = assert, !.reader = r,
                               !.mask = m, !.zscore = z]

\* CSVReader.Release: if cr.reader != nil { cr.reader.Release() }; the
\* field is set by NewCSVReader and never cleared
CSVReaderRelease(r) ==
    IF TooManyReleases(r.assert, r.reader)
    THEN [r EXCEPT !.panicked = TRUE, !.calls.reader = @ + 1]
    ELSE [r EXCEPT !.reader = Released(@), !.calls.reader = @ + 1,
                   !.first.reader =
                       IF r.calls.reader = 0 THEN Released(r.reader) ELSE @]

\* Result.Release: if r.Mask != nil { r.Mask.Release() }; the same for
\* r.Zscore; neither field is cleared
ResultRelease(r) ==
    IF TooManyReleases(r.assert, r.mask)
    THEN [r EXCEPT !.panicked = TRUE, !.calls.result = @ + 1]
    ELSE IF TooManyReleases(r.assert, r.zscore)
    THEN [r EXCEPT !.panicked = TRUE, !.mask = Released(@),
                   !.calls.result = @ + 1]
    ELSE [r EXCEPT !.mask = Released(@), !.zscore = Released(@),
                   !.calls.result = @ + 1,
                   !.first.mask =
                       IF r.calls.result = 0 THEN Released(r.mask) ELSE @,
                   !.first.zscore =
                       IF r.calls.result = 0 THEN Released(r.zscore) ELSE @]

CallCSVReaderRelease ==
    /\ program = "release"
    /\ ~refs.panicked
    /\ refs.calls.reader < MaxReleaseCalls
    /\ refs' = CSVReaderRelease(refs)
    /\ UNCHANGED <<detectVars, readerVars, chanVars, pipeVars>>

CallResultRelease ==
    /\ program = "release"
    /\ ~refs.panicked
    /\ refs.calls.result < MaxReleaseCalls
    /\ refs' = ResultRelease(refs)
    /\ UNCHANGED <<detectVars, readerVars, chanVars, pipeVars>>

NextRelease ==
    \/ CallCSVReaderRelease
    \/ CallResultRelease

SpecRelease == InitRelease /\ [][NextRelease]_vars

(* ------------------- statistics as the claims state them --------------- *)
\* Integer form over the non-null rows: n = count, S = sum,
\* Dev(i) = n*value[i] - S = n*(value[i] - mean), SSD = sum of Dev(i)^2,
\* so that variance = SSD / n^3 and zscore(i)^2 = Dev(i)^2 * n / SSD.
ValidRows(c) == {i \in 1..Len(c) : c[i].valid}
NValid(c) == Cardinality(ValidRows(c))

RECURSIVE SumOver(_, _)
SumOver(c, rows) ==
    IF rows = {} THEN 0
    ELSE LET i == CHOOSE j \in rows : TRUE
         IN  c[i].v + SumOver(c, rows \ {i})

Dev(c, i) == NValid(c) * c[i].v - SumOver(c, ValidRows(c))

RECURSIVE SumDevSq(_, _)
SumDevSq(c, rows) ==
    IF rows = {} THEN 0
    ELSE LET i == CHOOSE j \in rows : TRUE
         IN  Dev(c, i) * Dev(c, i) + SumDevSq(c, rows \ {i})

SSD(c) == SumDevSq(c, ValidRows(c))

\* a/b > c/d for a, c >= 0 and b, d > 0, by continued fractions (no
\* product is formed, so large numerators do not overflow)
RECURSIVE FracGt(_, _, _, _)
FracGt(a, b, c, d) ==
    IF a \div b # c \div d THEN a \div b > c \div d
    ELSE IF a % b = 0 THEN FALSE
    ELSE IF c % d = 0 THEN TRUE
    ELSE FracGt(d, c % d, b, a % b)

\* abs(value[i] - mean) / stddev > t, = t, for stddev # 0
ZAbove(c, i, t) ==
    t.num < 0 \/
    FracGt(Dev(c, i) * Dev(c, i) * NValid(c), SSD(c),
           t.num * t.num, t.den * t.den)
ZEquals(c, i, t) ==
    /\ t.num >= 0
    /\ ~FracGt(Dev(c, i) * Dev(c, i) * NValid(c), SSD(c),
               t.num * t.num, t.den * t.den)
    /\ ~FracGt(t.num * t.num, t.den * t.den,
               Dev(c, i) * Dev(c, i) * NValid(c), SSD(c))

MainReturned == program = "main" /\ called
MainOk == MainReturned /\ ret.err = NoErr
Flagged(m) == {i \in 1..Len(m) : m[i].valid /\ m[i].v}

(* ------------------------------- claims -------------------------------- *)
\* C1: for a non-empty column with a non-null value and nonzero stddev,
\* DetectAnomalies of super.go returns a mask with mask[i] true exactly
\* when abs(value[i] - mean) / stddev > threshold on the non-null rows and
\* false on the null rows.
C1_MaskIsZscoreAboveThreshold ==
    (MainReturned /\ NValid(col) >= 1 /\ SSD(col) > 0) =>
        /\ ret.err = NoErr
        /\ ~ret.mask.nil
        /\ Len(ret.mask.data) = Len(col)
        /\ \A i \in 1..Len(col) :
              IF col[i].valid
              THEN ret.mask.data[i].v <=> ZAbove(col, i, threshold)
              ELSE ret.mask.data[i].v = FALSE

C1_Witness ==
    /\ MainOk /\ SSD(col) > 0
    /\ \E i \in 1..Len(col) : ~col[i].valid
    /\ \E i \in ValidRows(col) : ret.mask.data[i].v
    /\ \E i \in ValidRows(col) : ~ret.mask.data[i].v

\* C2: in every DetectAnomalies variant a non-null value whose z-score
\* equals the threshold is not flagged (the comparison is strict); the
\* column [100,100,100,100,200,100,0,100] at threshold 2 gives an all-false
\* mask.
C2_BoundaryNotFlagged ==
    /\ MainOk =>
          \A i \in ValidRows(col) :
              (SSD(col) > 0 /\ ZEquals(col, i, threshold))
                  => ~ret.mask.data[i].v
    /\ (program = "supercharged" /\ res.called /\ res.r.err = NoErr) =>
          \A i \in ValidRows(col) :
              (SSD(col) > 0 /\ ZEquals(col, i, res.threshold))
                  => ~res.r.Mask.data[i].v
    /\ (MainOk /\ col = TestColumn /\ threshold = FromInt(2)) =>
          Flagged(ret.mask.data) = {}
    /\ (program = "supercharged" /\ res.called /\ res.r.err = NoErr
            /\ col = TestColumn /\ res.threshold = FromInt(2)) =>
          Flagged(res.r.Mask.data) = {}

\* C3: DetectAnomalies of super.go fails, returning no mask and no anomaly
\* list, exactly when the column has no non-null value: the empty-input
\* error for a column of length 0, the distinct no-valid-data error for a
\* non-empty all-null column, no error otherwise.
C3_ErrorsExactlyWithoutData ==
    MainReturned =>
        /\ (ret.err # NoErr) <=> (NValid(col) = 0)
        /\ Len(col) = 0 => ret.err = ErrEmpty
        /\ (Len(col) > 0 /\ NValid(col) = 0) => ret.err = ErrNoValid
        /\ ErrEmpty # ErrNoValid
        /\ IF ret.err # NoErr
           THEN ret.mask.nil /\ ret.anomalies.nil
           ELSE ~ret.mask.nil /\ ~ret.anomalies.nil

C3_Witness ==
    /\ MainReturned
    /\ Len(col) >= 2 /\ NValid(col) = 0
    /\ ret.err = ErrNoValid /\ ret.mask.nil

\* C4: when all non-null values are identical (stddev = 0), DetectAnomalies
\* returns no error, an all-false mask and an empty anomaly list, for every
\* threshold, zero and negative ones included.
C4_ZeroStddevFlagsNothing ==
    (MainReturned /\ NValid(col) >= 1 /\ SSD(col) = 0) =>
        /\ ret.err = NoErr
        /\ Len(ret.mask.data) = Len(col)
        /\ \A i \in 1..Len(col) : ret.mask.data[i].v = FALSE
        /\ ~ret.anomalies.nil /\ ret.anomalies.data = <<>>

C4_Witness ==
    /\ MainOk /\ NValid(col) >= 2 /\ SSD(col) = 0
    /\ threshold.num < 0
    /\ Flagged(ret.mask.data) = {}

\* C5 as stated: with threshold <= 0 every non-null row is flagged,
\* a row equal to the mean included.
C5_NonPositiveThresholdFlagsAll ==
    (MainOk /\ threshold.num <= 0) =>
        \A i \in ValidRows(col) : ret.mask.data[i].v

\* C5 amended: with stddev # 0, a negative threshold flags every non-null
\* row and threshold 0 flags exactly the non-null rows whose value differs
\* from the mean; with stddev = 0 no row is flagged.
C5_NonPositiveThresholdAmended ==
    (MainOk /\ threshold.num <= 0) =>
        \A i \in ValidRows(col) :
            ret.mask.data[i].v <=>
                /\ SSD(col) > 0
                /\ threshold.num < 0 \/ Dev(col, i) # 0

C5_Witness ==
    /\ MainOk /\ threshold.num = 0 /\ SSD(col) > 0
    /\ \E i \in ValidRows(col) : Dev(col, i) = 0 /\ ~ret.mask.data[i].v
    /\ \E i \in ValidRows(col) : Dev(col, i) # 0 /\ ret.mask.data[i].v

\* the column with its null rows removed
WithoutNulls(c) == SelectSeq(c, LAMBDA x : x.valid)

\* the entries of m at the non-null rows of c, in row order
RECURSIVE AtValidRows(_, _, _)
AtValidRows(m, c, i) ==
    IF i = 0 THEN <<>>
    ELSE IF c[i].valid THEN Append(AtValidRows(m, c, i - 1), m[i])
         ELSE AtValidRows(m, c, i - 1)

\* C6: null exclusion: DetectAnomalies computes the same mean and stddev
\* for a column C and for C with its null rows removed, the mask of C at
\* its non-null rows is the mask of the latter, and the anomaly lists are
\* equal.
C6_NullExclusion ==
    MainReturned =>
        LET r2 == DetectAnomalies(WithoutNulls(col), threshold)
        IN  /\ (ret.err = NoErr) <=> (r2.err = NoErr)
            /\ ret.err = NoErr =>
                  /\ r2.mean = ret.mean
                  /\ r2.variance = ret.variance
                  /\ r2.mask.data =
                        AtValidRows(ret.mask.data, col, Len(col))
                  /\ r2.anomalies = ret.anomalies

C6_Witness ==
    /\ MainOk
    /\ \E i \in 1..Len(col) : ~col[i].valid
    /\ NValid(col) >= 2
    /\ Flagged(ret.mask.data) # {}
    /\ Flagged(ret.mask.data) # ValidRows(col)

\* C7: monotonicity: for a fixed column and thresholds t1 <= t2 the rows
\* flagged at t2 are a subset of the rows flagged at t1, so the anomaly
\* count at t2 is at most the count at t1.
C7_MonotoneInThreshold ==
    (MainOk /\ prev.called /\ prev.ret.err = NoErr /\ prev.col = col) =>
        LET lo == IF FLe(prev.threshold, threshold) THEN prev.ret ELSE ret
            hi == IF FLe(prev.threshold, threshold) THEN ret ELSE prev.ret
        IN  /\ Flagged(hi.mask.data) \subseteq Flagged(lo.mask.data)
            /\ Len(hi.anomalies.data) <= Len(lo.anomalies.data)

C7_Witness ==
    /\ MainOk /\ prev.called /\ prev.col = col
    /\ FLt(prev.threshold, threshold)
    /\ Flagged(ret.mask.data) # {}
    /\ Flagged(ret.mask.data) # Flagged(prev.ret.mask.data)

\* the rows analyze reads as flagged, and the original values there
AnalyzeFlagged(i) ==
    IF IsNull(res.r.Mask.data, i) THEN out.nullBits[i]
    ELSE Value(res.r.Mask.data, i)

RECURSIVE ValuesAt(_, _, _)
ValuesAt(c, rows, i) ==
    IF i = 0 THEN <<>>
    ELSE IF i \in rows THEN Append(ValuesAt(c, rows, i - 1), c[i].v)
         ELSE ValuesAt(c, rows, i - 1)

\* a float64 score equal to the integer v
ScoreIs(s, v) ==
    /\ s.kind = "num"
    /\ s.sq = FromInt(v * v)
    /\ v # 0 => (s.neg <=> v < 0)

\* C8: the anomaly list is exactly the original column values (not the
\* z-scores) at the rows where the mask is true, in row order; for the
\* list DetectAnomalies of super.go returns and for the list the analyze
\* command assembles from a Result.
C8_AnomaliesAreOriginalValues ==
    /\ MainOk =>
          /\ ret.anomalies.data =
                ValuesAt(col, Flagged(ret.mask.data), Len(col))
          /\ Len(ret.anomalies.data) = Cardinality(Flagged(ret.mask.data))
    /\ (program = "supercharged" /\ out.done) =>
          LET rows == {i \in 1..Len(col) : AnalyzeFlagged(i)}
              want == ValuesAt(col, rows, Len(col))
          IN  /\ Len(out.Anomalies) = Len(want)
              /\ \A k \in 1..Len(want) : ScoreIs(out.Anomalies[k], want[k])

\* C9: whenever DetectAnomalies succeeds the mask has one entry per input
\* row, null rows included, and no mask entry is null, on the stddev = 0
\* branch and on the normal branch.
C9_MaskLengthAndValidity ==
    MainOk =>
        /\ ~ret.mask.nil
        /\ Len(ret.mask.data) = Len(col)
        /\ \A i \in 1..Len(col) :
              ret.mask.data[i].valid /\ ret.mask.data[i].v \in BOOLEAN

C9_Witness ==
    /\ MainOk /\ SSD(col) > 0
    /\ \E i \in 1..Len(col) : ~col[i].valid
    /\ Len(ret.mask.data) = Len(col) /\ Len(col) > NValid(col)

\* mean = S / n and variance = SSD / n^3 (population statistics)
IsPopulationMean(mean, c) ==
    mean.num * NValid(c) = SumOver(c, ValidRows(c)) * mean.den
IsPopulationVariance(variance, c) ==
    variance.num * NValid(c) * NValid(c) * NValid(c) = SSD(c) * variance.den

\* C10: detection uses population statistics over the non-null values:
\* mean = sum / N and variance = sum of (v - mean)^2 / N with N the count
\* of non-null values, in super.go and in computeMeanAndVariance, which
\* returns (0, 0) when N = 0.
C10_PopulationStatistics ==
    /\ MainOk =>
          /\ ret.validCount = NValid(col)
          /\ IsPopulationMean(ret.mean, col)
          /\ IsPopulationVariance(ret.variance, col)
    /\ (program = "supercharged" /\ res.called) =>
          IF NValid(col) = 0
          THEN res.r.mean = FZero /\ res.r.variance = FZero
          ELSE /\ IsPopulationMean(res.r.mean, col)
               /\ IsPopulationVariance(res.r.variance, col)

C10_Witness ==
    /\ MainOk /\ NValid(col) >= 2 /\ SSD(col) > 0
    /\ \E i \in 1..Len(col) : ~col[i].valid
    /\ ret.mean.den > 1

SuperchargedOk == program = "supercharged" /\ res.called /\ res.r.err = NoErr

\* C12: for the column [1,2,3,100,2] and threshold 1.99 detection flags
\* index 3 (value 100) and none of the indices 0, 1, 2, 4.
C12_SingleOutlierAt199 ==
    /\ (MainReturned /\ col = TestColumnSingleOutlier
            /\ threshold = Rat(199, 100)) =>
          ret.err = NoErr /\ Flagged(ret.mask.data) = {4}
    /\ (program = "supercharged" /\ res.called
            /\ col = TestColumnSingleOutlier
            /\ res.threshold = Rat(199, 100)) =>
          res.r.err = NoErr /\ Flagged(res.r.Mask.data) = {4}

C12_Witness ==
    /\ SuperchargedOk /\ col = TestColumnSingleOutlier
    /\ res.threshold = Rat(199, 100)
    /\ res.r.Mask.data[4].v /\ ~res.r.Mask.data[1].v

C14_NullsAndOutliers ==
    (MainReturned /\ col = TestColumnWithNulls /\ threshold = Rat(3, 2)) =>
        /\ ret.err = NoErr
        /\ 3 \notin Flagged(ret.mask.data)
        /\ 7 \notin Flagged(ret.mask.data)
        /\ Flagged(ret.mask.data) # {}
        /\ {5, 6} \subseteq Flagged(ret.mask.data)

C14_Witness ==
    /\ MainOk /\ col = TestColumnWithNulls /\ threshold = Rat(3, 2)
    /\ Flagged(ret.mask.data) = {5, 6}

(* ------------------- the input as the claims state it ------------------ *)
\* the number a token denotes, if any
IsNumber(tok) == \E v \in 0..9 : ToString(v) = tok
NumberOf(tok) == CHOOSE v \in 0..9 : ToString(v) = tok
\* R: the data rows of a file with a header line
DataRows(f) == Len(f) - 1
\* the column of a file: row i is null for a null token
ExpectedColumn(f, nulls) ==
    [i \in 1..DataRows(f) |->
        IF f[i + 1] \in nulls THEN NullSlot ELSE Slot(NumberOf(f[i + 1]))]
HasUnparseable(f, nulls) ==
    \E i \in 2..Len(f) : f[i] \notin nulls /\ ~IsNumber(f[i])
RECURSIVE SumRows(_, _)
SumRows(records, k) ==
    IF k = 0 THEN 0 ELSE SumRows(records, k - 1) + Len(records[k])

\* C15: the column returned by ReadSingleColumn (super.go), and the column
\* main hands to the detector, is the concatenation of the target column of
\* every batch in order, validity kept: its length is the number of data
\* rows of the input, also for inputs of more than one batch.
C15_ExtractedColumnIsWholeInput ==
    /\ (rr.op = "ReadSingleColumn" /\ rr.fresh /\ rr.err = NoErr) =>
          /\ ~rr.column.nil
          /\ Len(rr.column.data) = DataRows(file)
          /\ rr.column.data = ExpectedColumn(file, rd.nulls)
    /\ (rr.op = "main" /\ ~rr.exit) =>
          /\ Len(col) = DataRows(file)
          /\ col = ExpectedColumn(file, DefaultNulls)

\* C18: for an input of R data rows after the header, read without error,
\* ReadAll of a fresh reader returns no error and records whose row counts
\* sum to R; every record but the last has exactly the configured capacity
\* and the last between 1 and the capacity; 1 <= R <= capacity gives exactly
\* one record.
C18_BatchesWithinCapacity ==
    (rr.op = "ReadAll" /\ rr.fresh /\ Len(file) >= 1
        /\ ~HasUnparseable(file, rd.nulls)) =>
        LET n == Len(rr.records)
        IN  /\ rr.err = NoErr
            /\ SumRows(rr.records, n) = DataRows(file)
            /\ \A k \in 1..n :
                 /\ k < n => Len(rr.records[k]) = rd.chunk
                 /\ Len(rr.records[k]) \in 1..rd.chunk
            /\ DataRows(file) \in 1..rd.chunk => n = 1

C18_Witness ==
    /\ rr.op = "ReadAll" /\ rr.fresh /\ rr.err = NoErr
    /\ Len(rr.records) = 2
    /\ Len(rr.records[1]) = rd.chunk
    /\ Len(rr.records[2]) < rd.chunk

\* C19: the null tokens of a reader built by NewCSVReader always contain
\* the five default tokens, whatever options the caller passed.
C19_DefaultNullsKept == DefaultNulls \subseteq rd.nulls

\* C20: when a data row holds a non-null token that does not parse, ReadAll
\* returns an error and nil, never records with a null at that position.
C20_UnparseableIsAnError ==
    (rr.op = "ReadAll" /\ Len(file) >= 1
        /\ HasUnparseable(file, rd.nulls)) =>
        rr.err # NoErr /\ rr.nil /\ rr.records = <<>>

C20_Witness ==
    /\ rr.op = "ReadAll" /\ rr.fresh /\ rr.err = ErrReadAll /\ rr.nil
    /\ Len(file) = 4 /\ file[2] = "1" /\ file[3] = "abc" /\ file[4] = "NULL"

IsPrefix(a, b) == Len(a) <= Len(b) /\ a = SubSeq(b, 1, Len(a))

\* C16: the consumer of Chan receives the records in the order the
\* underlying reader produced them, none lost or duplicated; in the column
\* ReadSingleColumn (csvreader) returns, the rows of batch N come before
\* the rows of batch N+1 and the length is the sum of the batch lengths.
C16_BatchOrderPreserved ==
    program = "csvreader" =>
        /\ IsPrefix(cons.received, prod.produced)
        /\ Len(prod.produced) <= Len(cons.received) + 1
        /\ (cons.pc = "returned" /\ cons.err = NoErr) =>
            LET produced == prod.produced
                column == cons.column.data
            IN  /\ cons.received = produced
                /\ Len(column) = SumRows(produced, Len(produced))
                /\ \A k \in 1..Len(produced) :
                     \A j \in 1..Len(produced[k]) :
                       column[SumRows(produced, k - 1) + j] = produced[k][j]
                /\ column = ExpectedColumn(file, rd.nulls)

C16_Witness ==
    /\ program = "csvreader"
    /\ cons.pc = "returned" /\ cons.err = NoErr
    /\ Len(prod.produced) = 3
    /\ cons.column.data = <<Slot(1), NullSlot, Slot(2)>>

\* C17: once the context given to Chan is cancelled and the goroutine has
\* stopped, the record channel is closed and the error channel holds an
\* error or is closed, so a consumer that drained the records and receives
\* from the error channel is not blocked for ever.
C17_CancelledConsumerIsTold ==
    (ctx.done /\ prod.pc = "done") =>
        /\ recs.closed
        /\ errs.closed \/ errs.buf # <<>>
        /\ ~(cons.pc = "recvErr" /\ errs.buf = <<>> /\ ~errs.closed)

\* the direct two-pass algorithm (super.go) on the column and threshold of
\* the last call of the compute-based detector
MaskBitsEqual(direct, computed) ==
    /\ Len(computed) = Len(direct)
    /\ \A i \in 1..Len(direct) :
         /\ computed[i].valid = direct[i].valid
         /\ computed[i].v = direct[i].v

\* C24: the compute-based DetectAnomalies of package supercharged returns
\* an error exactly when the direct two-pass algorithm does (empty column,
\* all-null column) and otherwise a mask equal row by row to the direct
\* algorithm's mask, stddev = 0 and values at the threshold included.
C24_ComputeReproducesDirect ==
    (program = "supercharged" /\ res.called) =>
        LET Same(direct) ==
                /\ (res.r.err # NoErr) <=> (direct.err # NoErr)
                /\ (direct.err = NoErr /\ res.r.err = NoErr) =>
                      MaskBitsEqual(direct.mask.data, res.r.Mask.data)
        IN  Same(DetectAnomalies(col, res.threshold))

\* C25: Result.Zscore holds for every non-null row the z-score
\* abs(value - mean) / stddev: every non-null score is a number >= 0, and
\* mask[i] is true only where the returned score exceeds the threshold.
C25_ZscoreIsAbsolute ==
    (program = "supercharged" /\ res.called /\ res.r.err = NoErr
        /\ SSD(col) > 0) =>
        \A i \in 1..Len(col) :
            col[i].valid =>
                LET z == res.r.Zscore.data[i]
                IN  /\ z.valid
                    /\ z.v.kind = "num"
                    /\ ~z.v.neg
                    /\ z.v.sq = Rat(Dev(col, i) * Dev(col, i) * NValid(col),
                                    SSD(col))
                    /\ res.r.Mask.data[i].v =>
                          RootGt([sq |-> z.v.sq], res.threshold)

\* (value - mean)^2 <= (n - 1) * variance for the non-null rows, with the
\* mean and variance a detector computed
WithinScoreBound(c, mean, variance) ==
    \A i \in ValidRows(c) :
        LET d == FSub(FromInt(c[i].v), mean)
        IN  FLe(FMul(d, d), FMul(FromInt(NValid(c) - 1), variance))

C21_UnknownColumnIsNotFound ==
    (rr.op = "ReadSingleColumn" /\ rr.name # ColumnName) =>
        rr.err = ErrNotInSchema

\* C26: on every return path of the streaming ReadSingleColumn (the early
\* return on column-not-found with two or more batches included) the
\* producer goroutine started by Chan terminates: once ReadSingleColumn
\* has returned, with its context.Background() that is never cancelled,
\* the goroutine is not in its select holding a retained record that
\* nobody will receive.
C26_ProducerNotLeftBlocked ==
    (cons.pc = "returned" /\ ~ctx.cancellable) => prod.pc # "select"

\* C22: in every pipeline variant a target column of kind int32, int64 or
\* float32 is converted to a float64 column of the same length, with the
\* same validity and equal values per row, and is passed to the detector;
\* a text column is rejected with a type error before detection runs; no
\* numeric kind is rejected or passed on as a nil column.
C22_NumericKindsConverted ==
    conv.variant # "none" =>
        /\ arr.kind \in NarrowKinds =>
              /\ conv.err = NoErr
              /\ conv.detected
              /\ ~conv.floatColumn.nil
              /\ Len(conv.floatColumn.data) = Len(arr.data)
              /\ \A i \in 1..Len(arr.data) :
                    /\ conv.floatColumn.data[i].valid = arr.data[i].valid
                    /\ arr.data[i].valid =>
                          conv.floatColumn.data[i].v = arr.data[i].v
              /\ col = conv.floatColumn.data
        /\ arr.kind = StringKind => (conv.err # NoErr /\ ~conv.detected)

\* C23: Release is idempotent: after a second call of CSVReader.Release
\* or of Result.Release every reference count is what it was after the
\* first call, the second call panics on nothing, and no count falls
\* below zero.
C23_ReleaseIdempotent ==
    /\ ~refs.panicked
    /\ refs.calls.reader >= 1 => refs.reader = refs.first.reader
    /\ refs.calls.result >= 1 =>
          (refs.mask = refs.first.mask /\ refs.zscore = refs.first.zscore)
====
